---- MODULE Spec2Model ----
(***************************************************************************)
(* Model of examples/hh/generate_hh_simple.py: the reader, the writer and  *)
(* the request function send_request that the script hands to              *)
(* tgi_swarm.generate_data, together with the pipeline generate_data runs. *)
(*                                                                         *)
(* Two specifications share the module:                                    *)
(*   SpecRequest  one call of send_request(sample, client) against a       *)
(*                backend whose every answer is chosen nondeterministically*)
(*   Spec         a run of generate_data(reader, writer, send_request)     *)
(* Strings are sequences of one-character strings, so endswith, slicing    *)
(* and rstrip are computed character by character.                         *)
(***************************************************************************)
EXTENDS Integers, Sequences, FiniteSets, TLC

(* ------------------------------ bounds -------------------------------- *)

\* a generated text is the concatenation of at most MaxPieces pieces
MaxPieces == 3
\* successful backend calls that leave res falsy (empty) per send_request call
MaxEmpty == 1
\* dataset rows, resume offset, chunk size, pool size and queue capacity of a run
MaxInput == 3
MaxStart == 2
MaxChunk == 2
MaxWorkers == 2
MaxQueue == 2

(* ------------------------- program constants -------------------------- *)

\* the attempt ceiling of send_request: `if tries == 10: raise e`
MaxTries == 10

StopUser == <<"U", "s", "e", "r", ":">>
StopHash == <<"#", "#", "#">>
StopEot == <<"<", "|", "e", "n", "d", "o", "f", "t", "e", "x", "t", "|", ">">>

\* STOP_SEQ = ["User:", "###", "<|endoftext|>"]
STOP_SEQ == <<StopUser, StopHash, StopEot>>

\* the characters str.rstrip() removes (those that occur in the model's texts)
Whitespace == {" ", "\n"}

(* ------------------------------ strings ------------------------------- *)

\* str.endswith(suf)
EndsWith(s, suf) ==
    /\ Len(s) >= Len(suf)
    /\ SubSeq(s, Len(s) - Len(suf) + 1, Len(s)) = suf

\* s[: -n] for 0 < n
DropLast(s, n) == IF n >= Len(s) THEN <<>> ELSE SubSeq(s, 1, Len(s) - n)

\* str.rstrip()
RECURSIVE RStrip(_)
RStrip(s) ==
    IF s # <<>> /\ s[Len(s)] \in Whitespace
    THEN RStrip(SubSeq(s, 1, Len(s) - 1))
    ELSE s

\* mutant of StripStep: the trim is applied to every text
StripStepAlwaysTrim(res, stop_seq) ==
    IF EndsWith(res, stop_seq) THEN RStrip(DropLast(res, Len(stop_seq))) ELSE RStrip(res)

\* one iteration of the loop body:
\*   if res.endswith(stop_seq): res = res[: -len(stop_seq)].rstrip()
StripStep(res, stop_seq) ==
    IF EndsWith(res, stop_seq) THEN RStrip(DropLast(res, Len(stop_seq))) ELSE res

\* the loop `for stop_seq in STOP_SEQ`, from the i-th marker on
RECURSIVE StripFrom(_, _)
StripFrom(res, i) ==
    IF i > Len(STOP_SEQ) THEN res ELSE StripFrom(StripStep(res, STOP_SEQ[i]), i + 1)

\* mutant of StripStops: the loop leaves at the first marker that matched
RECURSIVE StripFirstFrom(_, _)
StripFirstFrom(res, i) ==
    IF i > Len(STOP_SEQ) THEN res
    ELSE IF EndsWith(res, STOP_SEQ[i]) THEN StripStep(res, STOP_SEQ[i])
    ELSE StripFirstFrom(res, i + 1)

StripStopsBreak(res) == StripFirstFrom(res, 1)

\* the whole loop over STOP_SEQ (the loop has no break)
StripStops(res) == StripFrom(res, 1)

(* ------------------------- generated texts ---------------------------- *)

Pieces == {<<"a">>, <<" ">>, <<"#">>, StopUser, StopHash, StopEot}

RECURSIVE TextsUpTo(_)
TextsUpTo(n) ==
    IF n = 0 THEN {<<>>}
    ELSE LET shorter == TextsUpTo(n - 1)
         IN  shorter \cup {t \o p : t \in shorter, p \in Pieces}

\* what the backend may answer
Texts == TextsUpTo(MaxPieces)

(* ------------------------------- state -------------------------------- *)

VARIABLES
    \* one call of send_request(sample, client)
    use_vllm,      \* args.tgi.use_vllm: TRUE selects the client.post / json.loads path
    sample,        \* the dict passed in, mutated in place and returned
    res,           \* local res: None, or Str(text)
    tries,         \* local tries
    rpc,           \* where the coroutine is: "idle", "call", "sleep", "returned", "raised"
    exc,           \* the exception that left send_request, or "none"
    raw,           \* history: the text the last successful backend call produced
    calls,         \* history: the number of backend calls made
    okCalls,       \* history: the number of backend calls that returned a text
    slept,         \* history: the arguments of every asyncio.sleep, in order
    \* one run of generate_data
    total_input,   \* args.max_samples, the number of dataset rows the reader selects
    start_index,   \* the reader's start_index
    chunk_size,    \* items per chunk
    num_workers,   \* size of the worker pool
    max_input_size,\* capacity of the input queue
    input_queue,   \* the bounded FIFO between the reader and the workers
    rd_pc,         \* reader: "idle", "loop", "sentinel", "done"
    si,            \* reader: the enumerate() counter
    puts,          \* history: everything the reader has put, in order
    wpc,           \* per worker: "absent", "get", "request", "putback", "exited"
    witem,         \* per worker: the item it holds
    wtries,        \* per worker: tries of the send_request call it is in
    wbeat,         \* per worker, history: parity of the backend calls of that call
    late,          \* history: a worker took the sentinel while a request was in flight
    sgets,         \* history: how often a worker has dequeued the sentinel
    sputs,         \* history: how often a worker has put the sentinel back
    results,       \* completed items forwarded to the aggregator, not yet appended
    buffer,        \* aggregator: the chunk being filled
    chunks_emitted,\* aggregator: the next chunk_index
    written,       \* history: every writer call, in order
    files,         \* the output folder: file name -> the chunk saved under it
    run            \* "idle", "running", "failed", "success"

reqVars == <<use_vllm, sample, res, tries, rpc, exc, raw, calls, okCalls, slept>>

pipeVars == <<total_input, start_index, chunk_size, num_workers, max_input_size,
              input_queue, rd_pc, si, puts, wpc, witem, wtries, wbeat, late,
              sgets, sputs, results, buffer,
              chunks_emitted, written, files, run>>

vars == <<reqVars, pipeVars>>

(* ---------------------------- send_request ---------------------------- *)

\* Python's None and a str value, kept apart from the empty string
None == <<>>
Str(t) == <<t>>

\* `not res`: None and the empty string are both falsy
Falsy(r) == r = None \/ r[1] = <<>>

\* the loop condition `while not res`
LoopAgain(r) == Falsy(r)

\* asyncio.sleep(tries * 2 + 3)
Backoff(t) == t * 2 + 3

\* the exception classes the except clause names, and the one it catches:
\* `ClientError or json.decoder.JSONDecodeError` evaluates to ClientError
TransientErrors == {"ClientError", "JSONDecodeError"}
Caught == {"ClientError"}

\* the errors an attempt can raise: the HTTP call on both paths, json.loads on
\* the client.post path only
Raisable == IF use_vllm THEN {"ClientError", "JSONDecodeError"} ELSE {"ClientError"}

Prompts == {<<"h", "i">>}
Samples == {[index |-> 0, prompt |-> p] : p \in Prompts}

\* mutant of SetContinuation: a new dict is built and the prompt is lost
SetContinuationOnly(s, r) == [index |-> s["index"], continuation |-> r]

\* sample["continuation"] = res
SetContinuation(s, r) ==
    [f \in DOMAIN s \cup {"continuation"} |-> IF f = "continuation" THEN r ELSE s[f]]

idlePipe ==
    /\ total_input = 0 /\ start_index = 0 /\ chunk_size = 1 /\ num_workers = 0
    /\ max_input_size = 1 /\ input_queue = <<>> /\ rd_pc = "idle" /\ si = 0
    /\ puts = <<>> /\ wpc = <<>> /\ witem = <<>> /\ wtries = <<>> /\ wbeat = <<>>
    /\ late = FALSE /\ sgets = 0 /\ sputs = 0 /\ results = <<>>
    /\ buffer = <<>> /\ chunks_emitted = 0 /\ written = <<>> /\ files = <<>>
    /\ run = "idle"

\* send_request is entered: res = None, tries = 1
InitRequest ==
    /\ use_vllm \in BOOLEAN
    /\ sample \in Samples
    /\ res = None
    /\ tries = 1
    /\ rpc = "call"
    /\ exc = "none"
    /\ raw = <<>>
    /\ calls = 0
    /\ okCalls = 0
    /\ slept = <<>>
    /\ idlePipe

\* the awaited backend call answers with text t; the stop markers are stripped
\* and the loop condition is evaluated
CallReturns(t) ==
    /\ rpc = "call"
    /\ LET r == Str(StripStops(t))
       IN  /\ res' = r
           /\ raw' = t
           /\ calls' = calls + 1
           /\ okCalls' = okCalls + 1
           /\ IF LoopAgain(r)
              THEN /\ okCalls < MaxEmpty
                   /\ rpc' = "call"
                   /\ UNCHANGED sample
              ELSE /\ sample' = SetContinuation(sample, r[1])
                   /\ rpc' = "returned"
    /\ UNCHANGED <<use_vllm, tries, exc, slept, pipeVars>>

\* the attempt raises e; the except clause catches it or it leaves send_request
CallRaises(e) ==
    /\ rpc = "call"
    /\ e \in Raisable
    /\ calls' = calls + 1
    /\ IF e \in Caught
       THEN IF tries = MaxTries
            THEN /\ rpc' = "raised" /\ exc' = e /\ UNCHANGED slept
            ELSE /\ rpc' = "sleep" /\ slept' = Append(slept, Backoff(tries))
                 /\ UNCHANGED exc
       ELSE /\ rpc' = "raised" /\ exc' = e /\ UNCHANGED slept
    /\ UNCHANGED <<use_vllm, sample, res, tries, raw, okCalls, pipeVars>>

\* asyncio.sleep returns: tries += 1 and the loop condition is evaluated again
Wake ==
    /\ rpc = "sleep"
    /\ tries' = tries + 1
    /\ rpc' = "call"
    /\ UNCHANGED <<use_vllm, sample, res, exc, raw, calls, okCalls, slept, pipeVars>>

NextRequest ==
    \/ \E t \in Texts : CallReturns(t)
    \/ \E e \in TransientErrors : CallRaises(e)
    \/ Wake

SpecRequest == InitRequest /\ [][NextRequest]_vars

(* ----------------------- claims on send_request ----------------------- *)

\* the sleeps of M failed attempts: 2*a + 3 for a = 1 .. M, in that order
ExpectedSleeps(M) == [a \in 1 .. M |-> 2 * a + 3]

\* C1: if every backend call made so far failed with a transient error, at most
\* 10 attempts have been made, the item has not been returned, and the error is
\* re-raised only after exactly 10 attempts and 9 sleeps.
C1_AllFailTenAttempts ==
    okCalls = 0 =>
        /\ calls <= MaxTries
        /\ rpc # "returned"
        /\ rpc = "raised" => (calls = MaxTries /\ Len(slept) = MaxTries - 1)

\* C2: when the first M < 10 attempts failed and attempt M + 1 succeeds,
\* send_request returns the completed item at that step, having slept exactly
\* 2*a + 3 for a = 1 .. M in that order and nothing after the success.
C2_RetryThenSuccess ==
    [][(rpc = "call" /\ okCalls = 0 /\ okCalls' = 1) =>
          /\ calls < MaxTries
          /\ rpc' = "returned"
          /\ "continuation" \in DOMAIN sample'
          /\ slept' = ExpectedSleeps(calls)]_vars

\* C3: a response-decode error is retried like a network error: it leaves
\* send_request only when it is raised on the 10th attempt.
C3_DecodeErrorRetried ==
    (rpc = "raised" /\ exc = "JSONDecodeError") => tries = MaxTries

\* C4: at most one backend call per item returns without error.
C4_AtMostOneSuccess == okCalls <= 1

EndsWithMarker(t) == \E i \in DOMAIN STOP_SEQ : EndsWith(t, STOP_SEQ[i])

\* the marker a text ends with (no marker is a suffix of another)
MarkerAt(t) == CHOOSE i \in DOMAIN STOP_SEQ : EndsWith(t, STOP_SEQ[i])

\* the text with its single trailing marker removed, then trimmed
StripOne(t) == RStrip(DropLast(t, Len(STOP_SEQ[MarkerAt(t)])))

\* the markers at or after position i of STOP_SEQ that end the text
MatchingFrom(t, i) == {j \in DOMAIN STOP_SEQ : j >= i /\ EndsWith(t, STOP_SEQ[j])}

SetMin(S) == CHOOSE x \in S : \A y \in S : x <= y

\* remove the first marker of STOP_SEQ[i ..] that ends the text, trim, and go
\* on with the markers listed after it
RECURSIVE RemoveInListOrder(_, _)
RemoveInListOrder(t, i) ==
    IF MatchingFrom(t, i) = {} THEN t
    ELSE LET j == SetMin(MatchingFrom(t, i))
         IN  RemoveInListOrder(RStrip(DropLast(t, Len(STOP_SEQ[j]))), j + 1)

\* C5 as stated: for a generated text that ends with a stop marker the result is
\* the text with that single trailing marker removed and then trimmed; no second
\* marker is removed.
C5_RightmostOnly ==
    (rpc = "returned" /\ EndsWithMarker(raw)) => sample["continuation"] = StripOne(raw)

\* C5 amended: for a generated text that ends with a stop marker the result is
\* the text with that marker removed and trimmed and then, for each marker listed
\* later in STOP_SEQ in turn, with that marker removed and the text trimmed again
\* if the text now ends with it; a marker listed earlier is left in place.
C5_StripInListOrder ==
    (okCalls > 0 /\ EndsWithMarker(raw)) =>
        /\ res = Str(RemoveInListOrder(raw, 1))
        /\ MatchingFrom(StripOne(raw), MarkerAt(raw) + 1) = {} => res = Str(StripOne(raw))

\* C5 witness: a returned continuation from which a second marker was removed
C5_Witness ==
    /\ rpc = "returned"
    /\ EndsWithMarker(raw)
    /\ MatchingFrom(StripOne(raw), MarkerAt(raw) + 1) # {}
    /\ sample["continuation"] # StripOne(raw)

\* C6: a non-empty generated text that ends with no stop marker is stored as the
\* continuation unmodified, and send_request returns, on both protocol paths.
C6_Unmodified ==
    (okCalls > 0 /\ raw # <<>> /\ ~EndsWithMarker(raw)) =>
        /\ rpc = "returned"
        /\ res = Str(raw)
        /\ "continuation" \in DOMAIN sample
        /\ sample["continuation"] = raw

\* C6 witness: after a retry, a text with trailing whitespace and an inner
\* marker is stored as it came
C6_Witness ==
    /\ rpc = "returned"
    /\ tries > 1
    /\ raw # <<>> /\ ~EndsWithMarker(raw)
    /\ raw[Len(raw)] \in Whitespace
    /\ Len(raw) > Len(StopHash)
    /\ sample["continuation"] = raw

(* --------------------------- generate_data ---------------------------- *)

\* tgi_swarm.SENTINEL, distinct from every work item; a work item is modelled by
\* its index, the prompt being opaque to the pipeline
SENTINEL == -1

\* mutant of WorkItem: the index is counted from the resume offset
WorkItemRelative(i, start) == i - start

\* {"index": si, "prompt": sample["prompt"]}
WorkItem(i, start) == i

\* mutant of Skips: the row at start_index is skipped as well
SkipsThrough(i, start) == i <= start

\* `if si < start_index: continue`
Skips(i, start) == i < start

Workers == 1 .. MaxWorkers

CeilDiv(a, b) == (a + b - 1) \div b

\* insert x into an ascending sequence
RECURSIVE InsertSorted(_, _)
InsertSorted(x, q) ==
    IF q = <<>> THEN <<x>>
    ELSE IF x <= Head(q) THEN <<x>> \o q
    ELSE <<Head(q)>> \o InsertSorted(x, Tail(q))

\* a chunk's items in ascending index order
RECURSIVE SortByIndex(_)
SortByIndex(q) == IF q = <<>> THEN <<>> ELSE InsertSorted(Head(q), SortByIndex(Tail(q)))

Digit == <<"0", "1", "2", "3", "4", "5", "6", "7", "8", "9">>

RECURSIVE Decimal(_)
Decimal(n) == IF n < 10 THEN <<Digit[n + 1]>> ELSE Decimal(n \div 10) \o <<Digit[(n % 10) + 1]>>

RECURSIVE ZeroPad(_, _)
ZeroPad(d, width) == IF Len(d) >= width THEN d ELSE ZeroPad(<<"0">> \o d, width)

\* mutant of FileName: the name does not contain the chunk index
FileNameFixed(chunk_i) == <<"c", "h", "u", "n", "k">> \o <<".", "c", "s", "v">>

\* f"{chunk_i:05d}.csv" inside args.output_folder
FileName(chunk_i) == ZeroPad(Decimal(chunk_i), 5) \o <<".", "c", "s", "v">>

\* writer(chunk, chunk_i, total_nr_chunks): the chunk is saved under the file
\* named by chunk_i, replacing a file of that name
WriterFiles(fs, chunk, chunk_i) ==
    [n \in DOMAIN fs \cup {FileName(chunk_i)} |->
        IF n = FileName(chunk_i) THEN chunk ELSE fs[n]]

WriterCall(chunk, chunk_i, total_nr_chunks) ==
    [chunk |-> chunk, chunk_i |-> chunk_i, total_nr_chunks |-> total_nr_chunks]

\* generate_data(args.tgi, reader, writer, send_request, total_input, max_input_size)
Init ==
    /\ total_input \in 0 .. MaxInput
    /\ start_index \in 0 .. MaxStart
    /\ chunk_size \in 1 .. MaxChunk
    /\ num_workers \in 1 .. MaxWorkers
    /\ max_input_size \in 1 .. MaxQueue
    /\ input_queue = <<>>
    /\ rd_pc = "loop"
    /\ si = 0
    /\ puts = <<>>
    /\ wpc = [w \in Workers |-> IF w <= num_workers THEN "get" ELSE "absent"]
    /\ witem = [w \in Workers |-> SENTINEL]
    /\ wtries = [w \in Workers |-> 1]
    /\ wbeat = [w \in Workers |-> 0]
    /\ late = FALSE
    /\ sgets = 0
    /\ sputs = 0
    /\ results = <<>>
    /\ buffer = <<>>
    /\ chunks_emitted = 0
    /\ written = <<>>
    /\ files = <<>>
    /\ run = "running"
    /\ use_vllm = FALSE /\ sample = <<>> /\ res = None /\ tries = 1 /\ rpc = "idle"
    /\ exc = "none" /\ raw = <<>> /\ calls = 0 /\ okCalls = 0 /\ slept = <<>>

inputVars == <<total_input, start_index, chunk_size, num_workers, max_input_size>>
readerVars == <<rd_pc, si, puts>>
workerVars == <<wpc, witem, wtries, wbeat, late, sgets, sputs>>
aggVars == <<buffer, chunks_emitted, written, files>>

\* reader: a row before start_index is passed over
ReaderSkip ==
    /\ run = "running" /\ rd_pc = "loop"
    /\ si < total_input
    /\ Skips(si, start_index)
    /\ si' = si + 1
    /\ UNCHANGED <<reqVars, inputVars, input_queue, rd_pc, puts, workerVars, results,
                   aggVars, run>>

\* mutant of ReaderPut: the put does not wait for a free slot
ReaderPutUnbounded ==
    /\ run = "running" /\ rd_pc = "loop"
    /\ si < total_input
    /\ ~Skips(si, start_index)
    /\ input_queue' = Append(input_queue, WorkItem(si, start_index))
    /\ puts' = Append(puts, WorkItem(si, start_index))
    /\ si' = si + 1
    /\ UNCHANGED <<reqVars, inputVars, rd_pc, workerVars, results, aggVars, run>>

\* reader: input_queue.put({"index": si, ...}), blocking while the queue is full
ReaderPut ==
    /\ run = "running" /\ rd_pc = "loop"
    /\ si < total_input
    /\ ~Skips(si, start_index)
    /\ Len(input_queue) < max_input_size
    /\ input_queue' = Append(input_queue, WorkItem(si, start_index))
    /\ puts' = Append(puts, WorkItem(si, start_index))
    /\ si' = si + 1
    /\ UNCHANGED <<reqVars, inputVars, rd_pc, workerVars, results, aggVars, run>>

\* reader: input_queue.put(SENTINEL) after the loop
ReaderSentinel ==
    /\ run = "running" /\ rd_pc = "loop"
    /\ si >= total_input
    /\ Len(input_queue) < max_input_size
    /\ input_queue' = Append(input_queue, SENTINEL)
    /\ puts' = Append(puts, SENTINEL)
    /\ rd_pc' = "done"
    /\ UNCHANGED <<reqVars, inputVars, si, workerVars, results, aggVars, run>>

\* mutant of WorkerGet: the dequeued item is not compared with the sentinel
WorkerGetNoCheck(w) ==
    /\ run = "running" /\ wpc[w] = "get"
    /\ input_queue # <<>>
    /\ input_queue' = Tail(input_queue)
    /\ witem' = [witem EXCEPT ![w] = Head(input_queue)]
    /\ wpc' = [wpc EXCEPT ![w] = "request"]
    /\ UNCHANGED <<reqVars, inputVars, readerVars, wtries, wbeat, late, sgets, sputs,
                   results, aggVars, run>>

\* worker: dequeue an item; the sentinel sends the worker to re-enqueue it
WorkerGet(w) ==
    /\ run = "running" /\ wpc[w] = "get"
    /\ input_queue # <<>>
    /\ input_queue' = Tail(input_queue)
    /\ witem' = [witem EXCEPT ![w] = Head(input_queue)]
    /\ wpc' = [wpc EXCEPT ![w] = IF Head(input_queue) = SENTINEL THEN "putback" ELSE "request"]
    /\ late' = (late \/ (Head(input_queue) = SENTINEL
                           /\ \E v \in Workers : wpc[v] \in {"request", "sleep"}))
    /\ sgets' = IF Head(input_queue) = SENTINEL THEN sgets + 1 ELSE sgets
    /\ UNCHANGED <<reqVars, inputVars, readerVars, wtries, wbeat, sputs, results, aggVars,
                   run>>

\* mutant of WorkerPutBack: the worker terminates without putting the sentinel back
WorkerExitNoPutBack(w) ==
    /\ run = "running" /\ wpc[w] = "putback"
    /\ wpc' = [wpc EXCEPT ![w] = "exited"]
    /\ UNCHANGED <<reqVars, inputVars, input_queue, readerVars, witem, wtries, wbeat, late,
                   sgets, sputs, results, aggVars, run>>

\* worker: put the sentinel back for the sibling workers and terminate
WorkerPutBack(w) ==
    /\ run = "running" /\ wpc[w] = "putback"
    /\ Len(input_queue) < max_input_size
    /\ input_queue' = Append(input_queue, SENTINEL)
    /\ wpc' = [wpc EXCEPT ![w] = "exited"]
    /\ sputs' = sputs + 1
    /\ UNCHANGED <<reqVars, inputVars, readerVars, witem, wtries, wbeat, late, sgets,
                   results, aggVars, run>>

\* worker: send_request returned the sample, which is forwarded to the aggregator
WorkerRequestReturns(w) ==
    /\ run = "running" /\ wpc[w] = "request"
    /\ results' = Append(results, witem[w])
    /\ wpc' = [wpc EXCEPT ![w] = "get"]
    /\ UNCHANGED <<reqVars, inputVars, input_queue, readerVars, witem, wtries, wbeat,
                   late, sgets, sputs, aggVars, run>>

\* worker: send_request raised; the error is fatal and aborts the run
WorkerRequestRaises(w) ==
    /\ run = "running" /\ wpc[w] = "request"
    /\ run' = "failed"
    /\ UNCHANGED <<reqVars, inputVars, input_queue, readerVars, workerVars, results,
                   aggVars>>

\* aggregator: hand the chunk to the writer under the next chunk_index
Flush(chunk) ==
    /\ written' = Append(written, WriterCall(SortByIndex(chunk), chunks_emitted,
                                             CeilDiv(total_input, chunk_size)))
    /\ files' = WriterFiles(files, SortByIndex(chunk), chunks_emitted)
    /\ chunks_emitted' = chunks_emitted + 1
    /\ buffer' = <<>>

\* aggregator: take one completed item; flush when chunk_size items are buffered
AggregatorAppend ==
    /\ run = "running"
    /\ results # <<>>
    /\ results' = Tail(results)
    /\ IF Len(buffer) + 1 = chunk_size
       THEN Flush(Append(buffer, Head(results)))
       ELSE /\ buffer' = Append(buffer, Head(results))
            /\ UNCHANGED <<chunks_emitted, written, files>>
    /\ UNCHANGED <<reqVars, inputVars, input_queue, readerVars, workerVars, run>>

AllExited == \A w \in Workers : wpc[w] \in {"exited", "absent"}

\* aggregator: the final, shorter chunk once every worker has exited
AggregatorFinalFlush ==
    /\ run = "running"
    /\ AllExited /\ results = <<>> /\ buffer # <<>>
    /\ Flush(buffer)
    /\ UNCHANGED <<reqVars, inputVars, input_queue, readerVars, workerVars, results, run>>

\* orchestrator: reader done, workers exited, last chunk flushed: return success
Finish ==
    /\ run = "running"
    /\ rd_pc = "done" /\ AllExited /\ results = <<>> /\ buffer = <<>>
    /\ run' = "success"
    /\ UNCHANGED <<reqVars, inputVars, input_queue, readerVars, workerVars, results,
                   aggVars>>

Next ==
    \/ ReaderSkip
    \/ ReaderPut
    \/ ReaderSentinel
    \/ \E w \in Workers : WorkerGet(w)
    \/ \E w \in Workers : WorkerPutBack(w)
    \/ \E w \in Workers : WorkerRequestReturns(w)
    \/ \E w \in Workers : WorkerRequestRaises(w)
    \/ AggregatorAppend
    \/ AggregatorFinalFlush
    \/ Finish

Spec == Init /\ [][Next]_vars

(* ---------------------- claims on generate_data ----------------------- *)

\* the indices K, K+1, ..., N-1 in ascending order
Remaining ==
    IF start_index < total_input
    THEN [i \in 1 .. (total_input - start_index) |-> start_index + i - 1]
    ELSE <<>>

IsPrefix(p, q) == Len(p) <= Len(q) /\ SubSeq(q, 1, Len(p)) = p

\* C7: the reader puts exactly the work items start_index .. total_input - 1,
\* each once and in ascending order, and then the sentinel exactly once, after
\* every work item; only the sentinel when start_index >= total_input.
C7_ReaderPuts ==
    /\ IsPrefix(puts, Remaining \o <<SENTINEL>>)
    /\ rd_pc = "done" => puts = Remaining \o <<SENTINEL>>
    /\ (rd_pc = "done" /\ start_index >= total_input) => puts = <<SENTINEL>>

\* C7 witness: a resumed reader has skipped a row, put two items and the sentinel
C7_Witness ==
    /\ rd_pc = "done"
    /\ start_index > 0
    /\ Len(puts) >= 3
    /\ puts[1] = start_index
    /\ puts[Len(puts)] = SENTINEL

RECURSIVE Flatten(_)
Flatten(ws) == IF ws = <<>> THEN <<>> ELSE Head(ws).chunk \o Flatten(Tail(ws))

\* every item handed to the writer, chunk after chunk
WrittenItems == Flatten(written)

Occurrences(q, x) == Cardinality({i \in DOMAIN q : q[i] = x})

\* C8: when the run ends without a fatal error, the set of indices in the chunks
\* handed to the writer is {start_index, ..., total_input - 1}.
C8_CompletedIndices ==
    run = "success" =>
        {WrittenItems[i] : i \in DOMAIN WrittenItems} =
            {i \in 0 .. total_input - 1 : i >= start_index}

\* C8 witness: a resumed run of two workers whose requests completed out of
\* index order has ended successfully
C8_Witness ==
    /\ run = "success"
    /\ start_index > 0
    /\ num_workers = 2
    /\ Len(written) >= 2
    /\ written[1].chunk[1] > written[2].chunk[1]

RECURSIVE SumLen(_)
SumLen(ws) == IF ws = <<>> THEN 0 ELSE Len(Head(ws).chunk) + SumLen(Tail(ws))

\* every chunk but possibly the last has chunk_size items, none is empty
ChunkLengthsOk ==
    \A i \in DOMAIN written :
        /\ Len(written[i].chunk) >= 1
        /\ Len(written[i].chunk) <= chunk_size
        /\ i < Len(written) => Len(written[i].chunk) = chunk_size

\* C9 as stated: a run with no fatal error invokes the writer exactly
\* ceil(total_input / chunk_size) times and the chunk lengths sum to total_input.
C9_ChunkCount ==
    run = "success" =>
        /\ Len(written) = CeilDiv(total_input, chunk_size)
        /\ SumLen(written) = total_input
        /\ ChunkLengthsOk

\* the number of rows the reader does not skip
ToProcess == IF start_index < total_input THEN total_input - start_index ELSE 0

\* C9 amended: a run with no fatal error invokes the writer exactly
\* ceil(R / chunk_size) times and the chunk lengths sum to R, where
\* R = max(total_input - start_index, 0); every chunk has chunk_size items except
\* possibly the last. With start_index = 0 this is ceil(total_input / chunk_size)
\* and total_input.
C9_ChunkCountFromStart ==
    run = "success" =>
        /\ Len(written) = CeilDiv(ToProcess, chunk_size)
        /\ SumLen(written) = ToProcess
        /\ ChunkLengthsOk
        /\ start_index = 0 => /\ Len(written) = CeilDiv(total_input, chunk_size)
                              /\ SumLen(written) = total_input

\* C9 witness: a successful run whose last chunk is shorter than the ones before
C9_Witness ==
    /\ run = "success"
    /\ Len(written) >= 2
    /\ Len(written[Len(written)].chunk) < chunk_size
    /\ Len(written[1].chunk) = chunk_size

\* C10: in a successful run with start_index = 0 every index 0 .. total_input - 1
\* appears exactly once across all chunks handed to the writer.
C10_ExactlyOnce ==
    (run = "success" /\ start_index = 0) =>
        /\ \A i \in 0 .. total_input - 1 : Occurrences(WrittenItems, i) = 1
        /\ Len(WrittenItems) = total_input

\* C10 witness: a successful run from index 0 with two workers, three items and
\* two chunks
C10_Witness ==
    /\ run = "success"
    /\ start_index = 0
    /\ num_workers = 2
    /\ total_input >= 3
    /\ Len(written) >= 2
    /\ \A i \in 0 .. total_input - 1 : Occurrences(WrittenItems, i) = 1

\* C11: the writer is invoked with chunk_index 0, 1, 2, ... in that order, with
\* no gap and no repetition, so every call saves its chunk under a file name of
\* its own and no file is overwritten; in every run, also one that fails.
C11_ChunkIndexOrder ==
    /\ \A i \in DOMAIN written : written[i].chunk_i = i - 1
    /\ chunks_emitted = Len(written)
    /\ Cardinality(DOMAIN files) = Len(written)
    /\ \A i \in DOMAIN written :
          /\ FileName(i - 1) \in DOMAIN files
          /\ files[FileName(i - 1)] = written[i].chunk

\* C11 witness: a run that failed after two chunks were written
C11_Witness ==
    /\ run = "failed"
    /\ Len(written) >= 2
    /\ written[2].chunk_i = 1

\* C12: the input queue never holds more than max_input_size entries, work
\* items and sentinel together.
C12_QueueBounded == Len(input_queue) <= max_input_size

\* C12 witness: the queue is full and the reader is held at a put with rows left
C12_Witness ==
    /\ rd_pc = "loop"
    /\ si < total_input
    /\ ~Skips(si, start_index)
    /\ Len(input_queue) = max_input_size
    /\ \E w \in Workers : wpc[w] = "request"

\* C14 as stated: over a complete run with W workers the sentinel is put back
\* W - 1 times and dequeued W times, and the input queue is empty at the end.
C14_RepublishedWMinusOne ==
    run = "success" =>
        /\ sputs = num_workers - 1
        /\ sgets = num_workers
        /\ input_queue = <<>>

\* C14 amended: over a complete run with W workers the sentinel is dequeued W
\* times and put back W times, once by every worker, so the input queue holds
\* exactly one entry, the sentinel, when the last worker has exited.
C14_RepublishedByEveryWorker ==
    /\ sputs <= sgets /\ sgets <= num_workers
    /\ (AllExited /\ run # "idle") =>
          /\ sputs = num_workers
          /\ sgets = num_workers
          /\ input_queue = <<SENTINEL>>

\* C14 witness: a complete run of two workers
C14_Witness ==
    /\ run = "success"
    /\ num_workers = 2
    /\ sputs = 2
    /\ Len(written) >= 1

\* C15: success is returned only after the reader is done, every worker has
\* exited and the aggregator has flushed its last chunk; every item the reader
\* put, that is every index start_index .. total_input - 1, is then in a chunk
\* handed to the writer.
C15_SuccessAfterDrain ==
    run = "success" =>
        /\ rd_pc = "done"
        /\ AllExited
        /\ results = <<>> /\ buffer = <<>>
        /\ \A i \in DOMAIN puts :
              puts[i] # SENTINEL => Occurrences(WrittenItems, puts[i]) >= 1
        /\ \A i \in 0 .. total_input - 1 :
              i >= start_index => Occurrences(WrittenItems, i) >= 1

\* C15 witness: success after a worker took the sentinel while another worker's
\* request was still in flight
C15_Witness ==
    /\ run = "success"
    /\ late
    /\ num_workers = 2
    /\ Len(WrittenItems) >= 2

Elems(q) == {q[i] : i \in DOMAIN q}

\* C16: the sentinel is never handed to the request function and is never an
\* element of a chunk, of the chunk being filled or of a forwarded result.
C16_SentinelNeverProcessed ==
    /\ \A w \in Workers : wpc[w] \in {"request", "sleep"} => witem[w] # SENTINEL
    /\ SENTINEL \notin Elems(results)
    /\ SENTINEL \notin Elems(buffer)
    /\ SENTINEL \notin Elems(WrittenItems)

\* C16 witness: one worker holds the sentinel while another is in a request and
\* a chunk has been written
C16_Witness ==
    /\ \E w, v \in Workers : wpc[w] = "putback" /\ wpc[v] = "request"
    /\ Len(written) >= 1

(* -------------------- further claims on send_request ------------------ *)

\* C18: no step of send_request changes or removes a field of the sample or
\* adds a field other than continuation, and the returned sample has exactly
\* the input's fields and the continuation, whatever the number of retries.
C18_PayloadKept ==
    /\ [](rpc = "returned" =>
            /\ DOMAIN sample = {"index", "prompt", "continuation"}
            /\ res # None /\ sample["continuation"] = res[1])
    /\ [][/\ DOMAIN sample' \subseteq DOMAIN sample \cup {"continuation"}
          /\ \A f \in DOMAIN sample :
                f # "continuation" => (f \in DOMAIN sample' /\ sample'[f] = sample[f])]_vars

\* C18 witness: a sample returned after two retries still carries its index and
\* prompt
C18_Witness ==
    /\ rpc = "returned"
    /\ tries >= 3
    /\ DOMAIN sample = {"index", "prompt", "continuation"}
    /\ sample \in {SetContinuation(s, sample["continuation"]) : s \in Samples}

\* C19: send_request has returned or raised after at most 10 backend calls for
\* the item: an 11th call is never made.
C19_AtMostTenCalls == calls <= MaxTries

\* C20: the stored continuation ends with none of the stop markers, and
\* stripping it a second time changes nothing.
C20_NoTrailingMarker ==
    rpc = "returned" =>
        /\ ~EndsWithMarker(sample["continuation"])
        /\ StripStops(sample["continuation"]) = sample["continuation"]

(* ------------------ the worker pool running send_request -------------- *)
(* The pipeline of Spec with every worker stepping through send_request:   *)
(* its backend calls, the backoff sleeps and the attempt counter. The text *)
(* of an answer matters only through the loop test, so an answer is either *)
(* one that leaves res truthy or one that leaves it empty.                 *)

\* mutant of SleepHolds: the sleep blocks the event loop (time.sleep), so every
\* other worker waits while one worker backs off
SleepHoldsLoop(v) == \E w \in Workers : w # v /\ wpc[w] = "sleep"

\* `await asyncio.sleep(...)` suspends the calling coroutine only: a sleeping
\* worker keeps no other worker v from running
SleepHolds(v) == FALSE

PoolGet(w) == ~SleepHolds(w) /\ WorkerGet(w)

PoolPutBack(w) == ~SleepHolds(w) /\ WorkerPutBack(w)

\* the backend call of worker w answers, res is truthy after stripping:
\* send_request returns the sample and the worker forwards it
PoolCallReturns(w) ==
    /\ run = "running" /\ wpc[w] = "request"
    /\ ~SleepHolds(w)
    /\ results' = Append(results, witem[w])
    /\ wpc' = [wpc EXCEPT ![w] = "get"]
    /\ wtries' = [wtries EXCEPT ![w] = 1]
    /\ wbeat' = [wbeat EXCEPT ![w] = 0]
    /\ UNCHANGED <<reqVars, inputVars, input_queue, readerVars, witem, late, sgets, sputs,
                   aggVars, run>>

\* the backend call answers, res is empty after stripping: `while not res`
\* repeats the call, tries unchanged
PoolCallEmpty(w) ==
    /\ run = "running" /\ wpc[w] = "request"
    /\ ~SleepHolds(w)
    /\ wbeat' = [wbeat EXCEPT ![w] = 1 - wbeat[w]]
    /\ UNCHANGED <<reqVars, inputVars, input_queue, readerVars, wpc, witem, wtries, late,
                   sgets, sputs, results, aggVars, run>>

\* the backend call raises e: the except clause of send_request, and the fatal
\* error when send_request re-raises or does not catch
PoolCallRaises(w, e) ==
    /\ run = "running" /\ wpc[w] = "request"
    /\ ~SleepHolds(w)
    /\ e \in Raisable
    /\ IF e \in Caught /\ wtries[w] # MaxTries
       THEN /\ wpc' = [wpc EXCEPT ![w] = "sleep"]
            /\ UNCHANGED run
       ELSE /\ run' = "failed"
            /\ UNCHANGED wpc
    /\ UNCHANGED <<reqVars, inputVars, input_queue, readerVars, witem, wtries, wbeat, late,
                   sgets, sputs, results, aggVars>>

\* asyncio.sleep returns in worker w: tries += 1, next attempt
PoolWake(w) ==
    /\ run = "running" /\ wpc[w] = "sleep"
    /\ wpc' = [wpc EXCEPT ![w] = "request"]
    /\ wtries' = [wtries EXCEPT ![w] = wtries[w] + 1]
    /\ UNCHANGED <<reqVars, inputVars, input_queue, readerVars, witem, wbeat, late, sgets,
                   sputs, results, aggVars, run>>

\* a resumed run over the largest datasets, with the largest chunks and queue
InitPool ==
    /\ Init
    /\ total_input \in {MaxInput - 1, MaxInput}
    /\ start_index = 1
    /\ chunk_size = MaxChunk
    /\ max_input_size = MaxQueue

ReaderStep == ReaderSkip \/ ReaderPut \/ ReaderSentinel

WorkerStep(w) ==
    \/ PoolGet(w)
    \/ PoolPutBack(w)
    \/ PoolCallReturns(w)
    \/ PoolCallEmpty(w)
    \/ \E e \in TransientErrors : PoolCallRaises(w, e)
    \/ PoolWake(w)

AggregatorStep == AggregatorAppend \/ AggregatorFinalFlush

NextPool ==
    \/ ReaderSkip
    \/ ReaderPut
    \/ ReaderSentinel
    \/ \E w \in Workers : PoolGet(w)
    \/ \E w \in Workers : PoolPutBack(w)
    \/ \E w \in Workers : PoolCallReturns(w)
    \/ \E w \in Workers : PoolCallEmpty(w)
    \/ \E w \in Workers, e \in TransientErrors : PoolCallRaises(w, e)
    \/ \E w \in Workers : PoolWake(w)
    \/ AggregatorAppend
    \/ AggregatorFinalFlush
    \/ Finish

\* every process that can take a step eventually takes one: the reader, each
\* worker, the aggregator and the orchestrator are scheduled fairly; which
\* answer the backend gives is not subject to fairness
SpecPool ==
    /\ InitPool
    /\ [][NextPool]_vars
    /\ WF_vars(ReaderStep)
    /\ \A w \in Workers : WF_vars(WorkerStep(w))
    /\ WF_vars(AggregatorStep)
    /\ WF_vars(Finish)

(* ----------------------- claims on the worker pool --------------------- *)

\* C13: once the reader has enqueued the sentinel, and unless a request fails
\* fatally, every worker eventually takes the sentinel, puts it back and
\* terminates.
C13_AllWorkersExit == (rd_pc = "done") ~> (AllExited \/ run = "failed")

====
